---------------------------- MODULE Spec2Model ----------------------------
(***************************************************************************)
(* member-qa: the message store (app/retrieval.py) and the /ask handler    *)
(* (app/main.py).                                                          *)
(*                                                                         *)
(* Spec       the store shared by the warm-up thread and request threads:  *)
(*            _ensure_models, _fetch, _warm_background, ensure_fresh,      *)
(*            search's reads of the store, and ask's error handling.       *)
(* SpecFetch  one call of _safe_fetch_messages against an upstream that    *)
(*            answers each GET as it likes.                                *)
(* SpecSearch one call of MessageStore.search by a single thread, on a     *)
(*            cold or a warm store, with its rankings computed.            *)
(* SpecAsk    one GET /ask on a warm store: normalization, the person, the *)
(*            snippets of search, the gates, the synthesis.                *)
(* SpecFair   Spec under fair scheduling of the threads.                   *)
(*                                                                         *)
(* Python positions are 0-based; sequences here are 1-based, so corpus     *)
(* position i of the source is position i+1 here.                          *)
(***************************************************************************)
EXTENDS Integers, Sequences, FiniteSets, TLC

(***************************************************************************)
(* Bounds of the model.                                                    *)
(***************************************************************************)
\* the largest corpus the upstream returns
MaxItems == 1
\* the number of times the clock advances
MaxTicks == 1
\* the largest corpus a search runs on (SpecSearch)
MaxCorpus == 3
\* the largest top_k a search is called with (SpecSearch)
MaxTopK == 2

(***************************************************************************)
(* Program constants.                                                      *)
(***************************************************************************)
_REFRESH_SEC == 600

\* None of the source, and a value that is not None: an attribute that may
\* be None holds << >> or <<value>>
None == << >>
Some(x) == <<x>>
Val(o) == o[1]

\* the threads: the warm-up thread of _warm_background, and request threads
\* each serving one GET /ask
BG == "bg"
Reqs == {"r1", "r2"}
Threads == {BG} \cup Reqs
NoThread == "free"

(***************************************************************************)
(* Messages and the artifacts _fetch derives from them.                    *)
(***************************************************************************)
\* the order sorted() gives the user names.  A user name is the sequence of
\* its characters: ask tokenizes and compares names (the timestamps and
\* messages of Upstream are strings nothing looks into)
NameOrder == <<<<"A", "n", "a">>, <<"B", "o", "b">>,
               <<"C", "y">>>>

\* the messages the upstream serves, in its order
Upstream == <<
    [user_name |-> <<"A", "n", "a">>, timestamp |-> "2025-11-10",
     message |-> "Ana booked a flight to London"],
    [user_name |-> <<"B", "o", "b">>, timestamp |-> "2025-11-11",
     message |-> "Bob wants two seats"],
    [user_name |-> <<"A", "n", "a">>, timestamp |-> "2025-11-12",
     message |-> "Ana asked about billing"],
    [user_name |-> <<"C", "y">>, timestamp |-> "2025-11-13",
     message |-> "Cy needs a villa"] >>

\* the "items" of a payload with n messages
Payload(n) == SubSeq(Upstream, 1, n)

\* f"{it['user_name']} | {it['timestamp']} | {it['message']}"
ComposeText(it) == <<it.user_name, " | ", it.timestamp, " | ", it.message>>

\* Encode giving None for no texts
Encode_NoneIfEmpty(texts) ==
    IF Len(texts) = 0 THEN None
    ELSE Some([i \in 1..Len(texts) |-> <<"vec", texts[i]>>])

\* embedder.encode(texts) if texts else np.zeros((0, 384)): a matrix with
\* one row per text, never None
Encode(texts) == Some([i \in 1..Len(texts) |-> <<"vec", texts[i]>>])

\* _tokenize(t): the terms of a text
Tokenize(t) == <<"tok", t>>

\* BM25Okapi(corpus_tok) if texts else None
BuildBM25(corpus_tok) ==
    IF Len(corpus_tok) > 0 THEN Some([corpus |-> corpus_tok]) ELSE None

\* sorted(list({it["user_name"] for it in items}))
SortedNames(its) ==
    SelectSeq(NameOrder, LAMBDA n : \E i \in 1..Len(its) : its[i].user_name = n)

\* what _fetch computes from the payload before it takes the lock
Derive(its) ==
    LET texts_ == [i \in 1..Len(its) |-> ComposeText(its[i])]
        tok_   == [i \in 1..Len(texts_) |-> Tokenize(texts_[i])]
    IN  [items |-> its,
         texts |-> texts_,
         embs |-> Encode(texts_),
         bm25 |-> BuildBM25(tok_),
         corpus_tok |-> tok_,
         user_names |-> SortedNames(its)]

\* the locals of a thread that is not inside _fetch
NoData == Derive(<< >>)

(***************************************************************************)
(* State.                                                                  *)
(***************************************************************************)
VARIABLES
    \* MessageStore
    embedder, reranker, _models_ready,
    _last_fetch, items, texts, embeddings, user_names, bm25, bm25_corpus,
    _lock,
    \* time.time()
    now, ticks,
    \* each thread: its position, the caller ensure_fresh returns to, the
    \* locals of _fetch, what search has read so far, and the response
    pc, ret, data, rd, resp,
    \* history: the number of model loads that succeeded, whether a swap has
    \* completed, where the warm-up failed, and the requests that saw a model
    \* load or a corpus fetch fail
    loads, loaded, bgFail, failed,
    \* _safe_fetch_messages (SpecFetch): its position, the index of the
    \* next path of _PATHS, last_err, what it returned, and the history of
    \* its path attempts with the GETs each one issued
    fpc, fpath, last_err, fresult, attempts,
    \* search (SpecSearch): its position, whether the models were loaded
    \* when it was called, its argument top_k, its locals bm_idx, em_idx,
    \* cand_idx and results, and the corpus position of each result
    spc, cold, top_k, bm_idx, em_idx, cand_idx, results, res_pos,
    \* ask (SpecAsk): its position, the question as sent and normalized,
    \* the person detected, the snippets search returned, the focus terms,
    \* the tag of the refusal, the snippets synthesize_answer was called
    \* with, and the kind of answer returned
    apc, question, q, name, snippets, focus, reason, synth_with, answer

storeVars == <<embedder, reranker, _models_ready, _last_fetch, items, texts,
               embeddings, user_names, bm25, bm25_corpus>>
dataVars == <<_last_fetch, items, texts, embeddings, user_names, bm25,
              bm25_corpus, loaded>>
modelVars == <<embedder, reranker, _models_ready, loads>>
clockVars == <<now, ticks>>
threadVars == <<pc, ret, data, rd, resp, bgFail, failed>>

fetchVars == <<fpc, fpath, last_err, fresult, attempts>>
storeSpecVars == <<embedder, reranker, _models_ready, _last_fetch, items,
                   texts, embeddings, user_names, bm25, bm25_corpus, _lock,
                   now, ticks, pc, ret, data, rd, resp, loads, loaded,
                   bgFail, failed>>
searchVars == <<spc, cold, top_k, bm_idx, em_idx, cand_idx, results,
                res_pos>>
askVars == <<apc, question, q, name, snippets, focus, reason, synth_with,
            answer>>
\* the variables Spec leaves alone
offVars == <<fetchVars, searchVars, askVars>>

vars == <<storeSpecVars, fetchVars, searchVars, askVars>>

\* what a search has read: the number of documents of the lexical index,
\* of rows of the matrix, of texts and of items it found (-1: not read yet),
\* and the number of candidate positions it computed from the first two
NoReads == [bm25 |-> -1, embeddings |-> -1, texts |-> -1, items |-> -1,
            cand |-> 0]

\* no call of _safe_fetch_messages under way
FetchOff ==
    /\ fpc = "off" /\ fpath = 0 /\ last_err = None /\ fresult = None
    /\ attempts = << >>

\* no call of search under way
SearchOff ==
    /\ spc = "off" /\ cold = FALSE /\ top_k = 0
    /\ bm_idx = << >> /\ em_idx = << >> /\ cand_idx = << >>
    /\ results = << >> /\ res_pos = << >>

\* no request of SpecAsk under way
AskOff ==
    /\ apc = "off" /\ question = << >> /\ q = << >> /\ name = None
    /\ snippets = << >> /\ focus = << >> /\ reason = "none"
    /\ synth_with = None /\ answer = "none"

\* MessageStore.__init__, and no thread started
StoreInit ==
    /\ embedder = None /\ reranker = None /\ _models_ready = FALSE
    /\ _last_fetch = 0
    /\ items = <<>> /\ texts = <<>> /\ embeddings = None
    /\ user_names = <<>> /\ bm25 = None /\ bm25_corpus = <<>>
    /\ _lock = NoThread
    /\ now = 2 * _REFRESH_SEC /\ ticks = 0
    /\ pc = [t \in Threads |-> "start"]
    /\ ret = [t \in Threads |-> "none"]
    /\ data = [t \in Threads |-> NoData]
    /\ rd = [t \in Threads |-> NoReads]
    /\ resp = [t \in Threads |-> "none"]
    /\ loads = 0 /\ loaded = FALSE
    /\ bgFail = "none"
    /\ failed = {}

Init == StoreInit /\ FetchOff /\ SearchOff /\ AskOff


(***************************************************************************)
(* Exceptions.                                                             *)
(***************************************************************************)
\* Where an exception raised inside ensure_fresh (or, for the warm-up
\* thread, inside _bg) ends up.  _bg catches it and prints; ask catches it
\* around its own ensure_fresh call (main.py 64-76) and answers 503; the
\* ensure_fresh call inside search (retrieval.py 167, reached from main.py
\* 82) is outside every try, so the exception leaves the handler.
Raise(t, stage) ==
    /\ pc' = [pc EXCEPT ![t] = "done"]
    /\ IF t = BG
       THEN /\ bgFail' = stage
            /\ resp' = [resp EXCEPT ![t] = "logged"]
            /\ UNCHANGED failed
       ELSE /\ failed' = failed \cup {t}
            /\ resp' = [resp EXCEPT ![t] =
                          IF ret[t] = "ask" THEN "503" ELSE "unhandled"]
            /\ UNCHANGED bgFail

(***************************************************************************)
(* Entry points.                                                           *)
(***************************************************************************)
\* threading.Thread(target=_bg).start(): _bg begins with _ensure_models
WarmBackground ==
    /\ pc[BG] = "start"
    /\ pc' = [pc EXCEPT ![BG] = "em_check1"]
    /\ ret' = [ret EXCEPT ![BG] = "warm"]
    /\ UNCHANGED <<storeVars, _lock, clockVars, data, rd, resp, loads,
                   loaded, bgFail, failed>>
    /\ UNCHANGED offVars

\* GET /ask: try: store.ensure_fresh()
Ask(t) ==
    /\ t \in Reqs
    /\ pc[t] = "start"
    /\ pc' = [pc EXCEPT ![t] = "em_check1"]
    /\ ret' = [ret EXCEPT ![t] = "ask"]
    /\ UNCHANGED <<storeVars, _lock, clockVars, data, rd, resp, loads,
                   loaded, bgFail, failed>>
    /\ UNCHANGED offVars

(***************************************************************************)
(* MessageStore._ensure_models                                             *)
(***************************************************************************)
\* where _ensure_models returns to: _bg calls _fetch next, ensure_fresh
\* evaluates its staleness condition
AfterModels(t) == IF t = BG THEN "f_fetch" ELSE "ef_check"

\* EnsureModelsCheck1 returning whether or not the models are loaded
EnsureModelsCheck1_Skip(t) ==
    /\ pc[t] = "em_check1"
    /\ pc' = [pc EXCEPT ![t] = AfterModels(t)]
    /\ UNCHANGED <<storeVars, _lock, clockVars, ret, data, rd, resp, loads,
                   loaded, bgFail, failed>>
    /\ UNCHANGED offVars

\* if self._models_ready: return
EnsureModelsCheck1(t) ==
    /\ pc[t] = "em_check1"
    /\ pc' = [pc EXCEPT ![t] =
                IF _models_ready THEN AfterModels(t) ELSE "em_lock"]
    /\ UNCHANGED <<storeVars, _lock, clockVars, ret, data, rd, resp, loads,
                   loaded, bgFail, failed>>
    /\ UNCHANGED offVars

\* with self._lock:
EnsureModelsLock(t) ==
    /\ pc[t] = "em_lock"
    /\ _lock = NoThread
    /\ _lock' = t
    /\ pc' = [pc EXCEPT ![t] = "em_check2"]
    /\ UNCHANGED <<storeVars, clockVars, ret, data, rd, resp, loads,
                   loaded, bgFail, failed>>
    /\ UNCHANGED offVars

\* EnsureModelsCheck2 without the second look at the flag: whoever gets the
\* lock loads
EnsureModelsCheck2_NoRecheck(t) ==
    /\ pc[t] = "em_check2"
    /\ pc' = [pc EXCEPT ![t] = "em_load"]
    /\ UNCHANGED <<storeVars, _lock, clockVars, ret, data, rd, resp, loads,
                   loaded, bgFail, failed>>
    /\ UNCHANGED offVars

\* (under the lock) if self._models_ready: return; otherwise start loading
EnsureModelsCheck2(t) ==
    /\ pc[t] = "em_check2"
    /\ IF _models_ready
       THEN /\ _lock' = NoThread
            /\ pc' = [pc EXCEPT ![t] = AfterModels(t)]
       ELSE /\ pc' = [pc EXCEPT ![t] = "em_load"]
            /\ UNCHANGED _lock
    /\ UNCHANGED <<storeVars, clockVars, ret, data, rd, resp, loads,
                   loaded, bgFail, failed>>
    /\ UNCHANGED offVars

\* EnsureModelsLoad with the flag set before the constructors run: a load
\* that raises leaves it set
EnsureModelsLoad_FlagFirst(t) ==
    /\ pc[t] = "em_load"
    /\ _lock' = NoThread
    /\ _models_ready' = TRUE
    /\ \/ /\ embedder' = Some("all-MiniLM-L6-v2")
          /\ reranker' = Some("ms-marco-MiniLM-L-6-v2")
          /\ loads' = loads + 1
          /\ pc' = [pc EXCEPT ![t] = AfterModels(t)]
          /\ UNCHANGED <<resp, bgFail, failed>>
       \/ /\ Raise(t, "models")
          /\ UNCHANGED <<embedder, reranker, loads>>
    /\ UNCHANGED <<dataVars, clockVars, ret, data, rd>>
    /\ UNCHANGED offVars

\* EnsureModelsLoad with the lock kept by a load that raises
EnsureModelsLoad_LockKept(t) ==
    /\ pc[t] = "em_load"
    /\ \/ /\ embedder' = Some("all-MiniLM-L6-v2")
          /\ reranker' = Some("ms-marco-MiniLM-L-6-v2")
          /\ _models_ready' = TRUE
          /\ loads' = loads + 1
          /\ _lock' = NoThread
          /\ pc' = [pc EXCEPT ![t] = AfterModels(t)]
          /\ UNCHANGED <<resp, bgFail, failed>>
       \/ /\ Raise(t, "models")
          /\ UNCHANGED <<embedder, reranker, _models_ready, loads, _lock>>
    /\ UNCHANGED <<dataVars, clockVars, ret, data, rd>>
    /\ UNCHANGED offVars

\* self.embedder = SentenceTransformer(..); self.reranker = CrossEncoder(..);
\* self._models_ready = True.  Either constructor may raise; the with
\* statement releases the lock on the way out.
EnsureModelsLoad(t) ==
    /\ pc[t] = "em_load"
    /\ _lock' = NoThread
    /\ \/ /\ embedder' = Some("all-MiniLM-L6-v2")
          /\ reranker' = Some("ms-marco-MiniLM-L-6-v2")
          /\ _models_ready' = TRUE
          /\ loads' = loads + 1
          /\ pc' = [pc EXCEPT ![t] = AfterModels(t)]
          /\ UNCHANGED <<resp, bgFail, failed>>
       \/ /\ Raise(t, "models")
          /\ UNCHANGED <<embedder, reranker, _models_ready, loads>>
       \/ /\ embedder' = Some("all-MiniLM-L6-v2")
          /\ Raise(t, "models")
          /\ UNCHANGED <<reranker, _models_ready, loads>>
    /\ UNCHANGED <<dataVars, clockVars, ret, data, rd>>
    /\ UNCHANGED offVars

(***************************************************************************)
(* MessageStore.ensure_fresh                                               *)
(***************************************************************************)
\* NeedsRefresh with >= for >
NeedsRefresh_AtInterval(embs, time, last) ==
    embs = None \/ (time - last) >= _REFRESH_SEC

\* self.embeddings is None or (time.time() - self._last_fetch) > _REFRESH_SEC
NeedsRefresh(embs, time, last) ==
    embs = None \/ (time - last) > _REFRESH_SEC

\* where ensure_fresh returns to: ask goes on to search, search to its
\* recall
AfterFresh(t) == IF ret[t] = "ask" THEN "ask_search" ELSE "s_bm25"

EnsureFreshCheck(t) ==
    /\ pc[t] = "ef_check"
    /\ pc' = [pc EXCEPT ![t] =
                IF NeedsRefresh(embeddings, now, _last_fetch)
                THEN "f_fetch" ELSE AfterFresh(t)]
    /\ UNCHANGED <<storeVars, _lock, clockVars, ret, data, rd, resp, loads,
                   loaded, bgFail, failed>>
    /\ UNCHANGED offVars

(***************************************************************************)
(* MessageStore._fetch                                                     *)
(***************************************************************************)
\* Fetch assigning self.items as soon as the payload is there, before the
\* embeddings and the index are computed
Fetch_EarlyWrite(t) ==
    /\ pc[t] = "f_fetch"
    /\ \/ /\ \E n \in 0..MaxItems :
                /\ n = 0 \/ embedder # None
                /\ data' = [data EXCEPT ![t] = Derive(Payload(n))]
          /\ pc' = [pc EXCEPT ![t] = "f_lock"]
          /\ UNCHANGED <<resp, bgFail, failed, items>>
       \/ /\ Raise(t, "fetch")
          /\ \E n \in 0..MaxItems : items' = Payload(n)
          /\ UNCHANGED data
    /\ UNCHANGED <<modelVars, _last_fetch, texts, embeddings, user_names,
                   bm25, bm25_corpus, loaded, _lock, clockVars, ret, rd>>
    /\ UNCHANGED offVars

\* Lines 117-124, all on locals: the upstream returns a payload of n
\* messages, from which the artifacts are derived, or something raises
\* (_safe_fetch_messages, a payload without the expected shape, encode;
\* self.embedder.encode is called for a payload that is not empty).
Fetch(t) ==
    /\ pc[t] = "f_fetch"
    /\ \/ /\ \E n \in 0..MaxItems :
                /\ n = 0 \/ embedder # None
                /\ data' = [data EXCEPT ![t] = Derive(Payload(n))]
          /\ pc' = [pc EXCEPT ![t] = "f_lock"]
          /\ UNCHANGED <<resp, bgFail, failed>>
       \/ /\ Raise(t, "fetch")
          /\ UNCHANGED data
    /\ UNCHANGED <<storeVars, _lock, clockVars, ret, rd, loads, loaded>>
    /\ UNCHANGED offVars

\* FetchLock without waiting for the lock
FetchLock_NoLock(t) ==
    /\ pc[t] = "f_lock"
    /\ _lock' = t
    /\ pc' = [pc EXCEPT ![t] = "w_items"]
    /\ UNCHANGED <<storeVars, clockVars, ret, data, rd, resp, loads,
                   loaded, bgFail, failed>>
    /\ UNCHANGED offVars

\* with self._lock:
FetchLock(t) ==
    /\ pc[t] = "f_lock"
    /\ _lock = NoThread
    /\ _lock' = t
    /\ pc' = [pc EXCEPT ![t] = "w_items"]
    /\ UNCHANGED <<storeVars, clockVars, ret, data, rd, resp, loads,
                   loaded, bgFail, failed>>
    /\ UNCHANGED offVars

\* self.items = items
WriteItems(t) ==
    /\ pc[t] = "w_items"
    /\ items' = data[t].items
    /\ pc' = [pc EXCEPT ![t] = "w_texts"]
    /\ UNCHANGED <<modelVars, _last_fetch, texts, embeddings, user_names,
                   bm25, bm25_corpus, _lock, clockVars, ret, data, rd, resp,
                   loaded, bgFail, failed>>
    /\ UNCHANGED offVars

\* self.texts = texts
WriteTexts(t) ==
    /\ pc[t] = "w_texts"
    /\ texts' = data[t].texts
    /\ pc' = [pc EXCEPT ![t] = "w_embeddings"]
    /\ UNCHANGED <<modelVars, _last_fetch, items, embeddings, user_names,
                   bm25, bm25_corpus, _lock, clockVars, ret, data, rd, resp,
                   loaded, bgFail, failed>>
    /\ UNCHANGED offVars

\* self.embeddings = embs
WriteEmbeddings(t) ==
    /\ pc[t] = "w_embeddings"
    /\ embeddings' = data[t].embs
    /\ pc' = [pc EXCEPT ![t] = "w_bm25"]
    /\ UNCHANGED <<modelVars, _last_fetch, items, texts, user_names, bm25,
                   bm25_corpus, _lock, clockVars, ret, data, rd, resp,
                   loaded, bgFail, failed>>
    /\ UNCHANGED offVars

\* self.bm25 = bm25
WriteBM25(t) ==
    /\ pc[t] = "w_bm25"
    /\ bm25' = data[t].bm25
    /\ pc' = [pc EXCEPT ![t] = "w_bm25_corpus"]
    /\ UNCHANGED <<modelVars, _last_fetch, items, texts, embeddings,
                   user_names, bm25_corpus, _lock, clockVars, ret, data, rd,
                   resp, loaded, bgFail, failed>>
    /\ UNCHANGED offVars

\* self.bm25_corpus = corpus_tok
WriteBM25Corpus(t) ==
    /\ pc[t] = "w_bm25_corpus"
    /\ bm25_corpus' = data[t].corpus_tok
    /\ pc' = [pc EXCEPT ![t] = "w_user_names"]
    /\ UNCHANGED <<modelVars, _last_fetch, items, texts, embeddings,
                   user_names, bm25, _lock, clockVars, ret, data, rd, resp,
                   loaded, bgFail, failed>>
    /\ UNCHANGED offVars

\* self.user_names = user_names
WriteUserNames(t) ==
    /\ pc[t] = "w_user_names"
    /\ user_names' = data[t].user_names
    /\ pc' = [pc EXCEPT ![t] = "w_last_fetch"]
    /\ UNCHANGED <<modelVars, _last_fetch, items, texts, embeddings, bm25,
                   bm25_corpus, _lock, clockVars, ret, data, rd, resp,
                   loaded, bgFail, failed>>
    /\ UNCHANGED offVars

\* self._last_fetch = time.time(), and the with statement releases the
\* lock; _fetch returns: _bg is finished, ensure_fresh returns to its caller
WriteLastFetch(t) ==
    /\ pc[t] = "w_last_fetch"
    /\ _last_fetch' = now
    /\ loaded' = TRUE
    /\ _lock' = NoThread
    /\ pc' = [pc EXCEPT ![t] = IF t = BG THEN "done" ELSE AfterFresh(t)]
    /\ resp' = [resp EXCEPT ![t] = IF t = BG THEN "warm" ELSE @]
    /\ data' = [data EXCEPT ![t] = NoData]
    /\ UNCHANGED <<modelVars, items, texts, embeddings, user_names, bm25,
                   bm25_corpus, clockVars, ret, rd, bgFail, failed>>
    /\ UNCHANGED offVars

(***************************************************************************)
(* ask and MessageStore.search, as far as they touch the store.  The       *)
(* requests of this specification name no known member, so search gets     *)
(* user_name=None and _embedding_topn builds no mask; top_k is 10, more    *)
(* than MaxItems, so every candidate is returned.                          *)
(***************************************************************************)
\* main.py 78-82: ensure_fresh returned; ask calls store.search, whose first
\* statement is self.ensure_fresh()
AskSearch(t) ==
    /\ pc[t] = "ask_search"
    /\ ret' = [ret EXCEPT ![t] = "search"]
    /\ pc' = [pc EXCEPT ![t] = "em_check1"]
    /\ UNCHANGED <<storeVars, _lock, clockVars, data, rd, resp, loads,
                   loaded, bgFail, failed>>
    /\ UNCHANGED offVars

\* _bm25_topn: reads self.bm25; [] if it is None, else the argsort of one
\* score per document of the index
SearchBM25(t) ==
    /\ pc[t] = "s_bm25"
    /\ rd' = [rd EXCEPT ![t] =
                LET docs == IF bm25 = None THEN 0 ELSE Len(Val(bm25).corpus)
                IN  [@ EXCEPT !.bm25 = docs, !.cand = docs]]
    /\ pc' = [pc EXCEPT ![t] = "s_emb"]
    /\ UNCHANGED <<storeVars, _lock, clockVars, ret, data, resp, loads,
                   loaded, bgFail, failed>>
    /\ UNCHANGED offVars

\* the larger of two numbers
Max(a, b) == IF a >= b THEN a ELSE b

\* _embedding_topn: reads self.embeddings; the argsort of one similarity per
\* row.  The candidates are the positions of either list; with none of
\* them search returns [] and ask answers with a refusal (200).
SearchEmbedding(t) ==
    /\ pc[t] = "s_emb"
    /\ LET rows == IF embeddings = None THEN 0 ELSE Len(Val(embeddings))
           cand == Max(rd[t].cand, rows)
       IN  /\ rd' = [rd EXCEPT ![t] =
                       [@ EXCEPT !.embeddings = rows, !.cand = cand]]
           /\ IF cand = 0
              THEN /\ pc' = [pc EXCEPT ![t] = "done"]
                   /\ resp' = [resp EXCEPT ![t] = "200"]
              ELSE /\ pc' = [pc EXCEPT ![t] = "s_texts"]
                   /\ UNCHANGED resp
    /\ UNCHANGED <<storeVars, _lock, clockVars, ret, data,
                   loads, loaded, bgFail, failed>>
    /\ UNCHANGED offVars

\* pairs = [(query, self.texts[i]) for i in cand_idx]: reads self.texts; a
\* candidate position the list does not have raises IndexError, which
\* nothing in ask catches
SearchTexts(t) ==
    /\ pc[t] = "s_texts"
    /\ rd' = [rd EXCEPT ![t] = [@ EXCEPT !.texts = Len(texts)]]
    /\ IF rd[t].cand > Len(texts)
       THEN /\ pc' = [pc EXCEPT ![t] = "done"]
            /\ resp' = [resp EXCEPT ![t] = "unhandled"]
       ELSE /\ pc' = [pc EXCEPT ![t] = "s_items"]
            /\ UNCHANGED resp
    /\ UNCHANGED <<storeVars, _lock, clockVars, ret, data,
                   loads, loaded, bgFail, failed>>
    /\ UNCHANGED offVars

\* it = self.items[i] for the reranked candidates: reads self.items; then
\* ask's gates and the answer, a 200 in every case
SearchItems(t) ==
    /\ pc[t] = "s_items"
    /\ rd' = [rd EXCEPT ![t] = [@ EXCEPT !.items = Len(items)]]
    /\ pc' = [pc EXCEPT ![t] = "done"]
    /\ resp' = [resp EXCEPT ![t] =
                  IF rd[t].cand > Len(items) THEN "unhandled" ELSE "200"]
    /\ UNCHANGED <<storeVars, _lock, clockVars, ret, data,
                   loads, loaded, bgFail, failed>>
    /\ UNCHANGED offVars

(***************************************************************************)
(* The clock.                                                              *)
(***************************************************************************)
\* time passes: exactly a refresh interval, or a second more
Tick ==
    /\ ticks < MaxTicks
    /\ ticks' = ticks + 1
    /\ \E d \in {_REFRESH_SEC, _REFRESH_SEC + 1} : now' = now + d
    /\ UNCHANGED <<storeVars, _lock, threadVars, loads, loaded>>
    /\ UNCHANGED offVars

Next ==
    \/ WarmBackground
    \/ Tick
    \/ \E t \in Reqs : Ask(t) \/ AskSearch(t) \/ EnsureFreshCheck(t)
    \/ \E t \in Reqs : SearchBM25(t) \/ SearchEmbedding(t)
    \/ \E t \in Reqs : SearchTexts(t) \/ SearchItems(t)
    \/ \E t \in Threads : EnsureModelsCheck1(t) \/ EnsureModelsLock(t)
    \/ \E t \in Threads : EnsureModelsCheck2(t) \/ EnsureModelsLoad(t)
    \/ \E t \in Threads : Fetch(t) \/ FetchLock(t)
    \/ \E t \in Threads : WriteItems(t) \/ WriteTexts(t) \/ WriteEmbeddings(t)
    \/ \E t \in Threads : WriteBM25(t) \/ WriteBM25Corpus(t)
    \/ \E t \in Threads : WriteUserNames(t) \/ WriteLastFetch(t)

Spec == Init /\ [][Next]_vars


(***************************************************************************)
(* Properties of Spec.                                                     *)
(***************************************************************************)
\* the store's attributes a search reads
SearchReads == {"bm25", "embeddings", "texts", "items"}

\* C1: whatever a search has read of the lexical index, the embeddings, the
\* texts and the items comes from one snapshot: the payloads being prefixes
\* of one another, the artifacts of one snapshot are those of one length.
\* search takes no lock (retrieval.py 150-196), so this fails.
C1_ReadsOneSnapshot ==
    \A t \in Reqs : \A f, g \in SearchReads :
        (rd[t][f] # -1 /\ rd[t][g] # -1) => rd[t][f] = rd[t][g]

\* C2: the models are loaded successfully at most once, no two threads are
\* loading at the same time, and nobody is loading once _models_ready is set.
C2_ModelsLoadedOnce ==
    /\ loads <= 1
    /\ Cardinality({t \in Threads : pc[t] = "em_load"}) <= 1
    /\ _models_ready => \A t \in Threads : pc[t] # "em_load"

\* a thread that saw the flag unset, waited for the lock, and finds the
\* flag set by the thread that loaded meanwhile
C2_Witness ==
    /\ _models_ready
    /\ loads = 1
    /\ \E t \in Threads : pc[t] = "em_check2"

\* ensure_fresh has returned to t's ask or search without raising
Returned(t) ==
    \/ pc[t] \in {"ask_search", "s_bm25", "s_emb", "s_texts", "s_items"}
    \/ ret[t] = "search"
    \/ resp[t] = "200"

\* C3: ensure_fresh refreshes exactly if, when it checks, no snapshot has
\* ever been loaded or the snapshot is older than _REFRESH_SEC; and when it
\* has returned, a snapshot is loaded.
C3_RefreshIffStale ==
    /\ [](\A t \in Reqs : Returned(t) => (loaded /\ embeddings # None))
    /\ [][\A t \in Reqs :
            (pc[t] = "ef_check" /\ pc'[t] # "ef_check") =>
                ((pc'[t] = "f_fetch") <=>
                    (~loaded \/ now - _last_fetch > _REFRESH_SEC))]_vars

\* search's ensure_fresh refreshes a snapshot that ask's ensure_fresh found
\* fresh
C3_Witness ==
    \E t \in Reqs : pc[t] = "f_fetch" /\ ret[t] = "search" /\ loaded

\* C7: an exception in the warm-up thread stays in the thread, and leaves
\* nothing behind that lets ensure_fresh skip the load or the fetch: after a
\* failed load, and until somebody's load succeeds, _models_ready is unset
\* and a caller goes on to load; after a failed fetch, and until somebody's
\* swap completes, the staleness condition holds and a caller goes on to
\* fetch.
C7_WarmupFailureContained ==
    /\ [](/\ resp[BG] # "unhandled"
          /\ (bgFail # "none") => (pc[BG] = "done" /\ _lock # BG)
          /\ (bgFail = "models" /\ loads = 0) => ~_models_ready
          /\ (bgFail = "fetch" /\ ~loaded) =>
                NeedsRefresh(embeddings, now, _last_fetch))
    /\ [][\A t \in Reqs :
            /\ (bgFail = "models" /\ loads = 0 /\ pc[t] = "em_check1"
                    /\ pc'[t] # pc[t]) => pc'[t] = "em_lock"
            /\ (bgFail = "fetch" /\ ~loaded /\ pc[t] = "ef_check"
                    /\ pc'[t] # pc[t]) => pc'[t] = "f_fetch"]_vars

\* the warm-up's model load has failed, and a request is loading the models
C7_Witness ==
    /\ bgFail = "models"
    /\ loads = 0
    /\ \E t \in Reqs : pc[t] = "em_load"

\* C8: a request during which a model load or a corpus fetch failed is
\* answered 503, every other request 200.  Fails: the ensure_fresh inside
\* search runs outside ask's try.
C8_FailureIs503 ==
    \A t \in Reqs :
        pc[t] = "done" =>
            resp[t] = (IF t \in failed THEN "503" ELSE "200")

(***************************************************************************)
(* The fetcher: _authed_get, _get_messages_once, _safe_fetch_messages.     *)
(*                                                                         *)
(* A string of the source is a sequence of pieces, "/" a piece of its own, *)
(* so that startswith("/") and + are what they are in the source.          *)
(***************************************************************************)
MESSAGES_URL_BASE == <<"https://november7-730026606190.europe-west1.run.app">>

_PATHS == << <<"/", "messages">>, <<"/", "messages", "/">> >>

\* the status codes _authed_get names
RedirectCodes == {301, 302, 303, 307, 308}

\* what the upstream may answer to one GET: no answer at all (requests.get
\* raises: a timeout, a refused connection), or a status, the Location
\* header (None: absent) and the body (None: not JSON, else the payload the
\* JSON parses to)
NoAnswer == [kind |-> "exception", status |-> 0, location |-> None,
             body |-> None]
Answer(st, loc, b) == [kind |-> "response", status |-> st, location |-> loc,
                       body |-> b]
Locations ==
    { None,
      Some(<< >>),
      Some(<<"/", "messages", "/">>),
      Some(<<"messages", "/">>),
      Some(<<"https://elsewhere.example", "/", "messages">>) }
Bodies == {None, Some("items")}
Responses ==
    {NoAnswer}
    \cup {Answer(200, None, b) : b \in Bodies}
    \cup {Answer(st, None, Some("items")) : st \in {304, 404, 503}}
    \cup {Answer(st, loc, b) : st \in {302, 308}, loc \in Locations, b \in Bodies}

\* loc.startswith("/")
StartsWithSlash(str) == Len(str) > 0 /\ str[1] = "/"

\* requests.get(url, allow_redirects=False): a URL without a scheme raises
\* before anything is sent; otherwise the upstream's answer, as it is
HttpGet(url, sent) ==
    IF Len(url) > 0 /\ url[1] \in {MESSAGES_URL_BASE[1], "https://elsewhere.example"}
    THEN sent ELSE NoAnswer

\* r.is_redirect (a redirect status and a Location header) or
\* r.status_code in (301, 302, 303, 307, 308)
IsRedirect(r) ==
    \/ (r.location # None /\ r.status \in RedirectCodes)
    \/ r.status \in RedirectCodes

\* ResolveLocation that uses the header as it came
ResolveLocation_Verbatim(loc) == loc

\* if loc and loc.startswith("/"): loc = MESSAGES_URL_BASE + loc
ResolveLocation(loc) ==
    IF loc # None /\ StartsWithSlash(Val(loc))
    THEN Some(MESSAGES_URL_BASE \o Val(loc)) ELSE loc

\* if loc: of a header value (None and "" are false)
Truthy(loc) == loc # None /\ Len(Val(loc)) > 0

\* r.raise_for_status(): requests raises HTTPError for 400..599 only
RaisesForStatus(r) == r.status >= 400 /\ r.status < 600

\* _authed_get(url), the upstream answering a1 to the first GET and a2 to a
\* second one: the GETs issued, and the response returned or the exception
\* raised
AuthedGet(url, a1, a2) ==
    LET r1 == HttpGet(url, a1)
        g1 == <<[url |-> url, r |-> r1]>>
    IN  IF r1.kind = "exception"
        THEN [gets |-> g1, raised |-> "ConnectionError", r |-> r1]
        ELSE LET loc == IF IsRedirect(r1) THEN ResolveLocation(r1.location)
                        ELSE None
                 follow == IsRedirect(r1) /\ Truthy(loc)
                 r2 == IF follow THEN HttpGet(Val(loc), a2) ELSE r1
                 gets == IF follow
                         THEN Append(g1, [url |-> Val(loc), r |-> r2])
                         ELSE g1
             IN  IF r2.kind = "exception"
                 THEN [gets |-> gets, raised |-> "ConnectionError", r |-> r2]
                 ELSE IF RaisesForStatus(r2)
                 THEN [gets |-> gets, raised |-> "HTTPError", r |-> r2]
                 ELSE [gets |-> gets, raised |-> "no", r |-> r2]

\* _get_messages_once(url): r = _authed_get(url); return r.json()
GetMessagesOnce(url, a1, a2) ==
    LET a == AuthedGet(url, a1, a2)
    IN  IF a.raised # "no"
        THEN [url |-> url, gets |-> a.gets, final |-> a.r, ok |-> FALSE,
              payload |-> None, err |-> Some([type |-> a.raised, url |-> url])]
        ELSE IF a.r.body = None
        THEN [url |-> url, gets |-> a.gets, final |-> a.r, ok |-> FALSE,
              payload |-> None,
              err |-> Some([type |-> "JSONDecodeError", url |-> url])]
        ELSE [url |-> url, gets |-> a.gets, final |-> a.r, ok |-> TRUE,
              payload |-> a.r.body, err |-> None]

\* NextLastErr that keeps the first error
NextLastErr_First(old, e) == IF old = None THEN e ELSE old

\* last_err = e
NextLastErr(old, e) == e

\* _safe_fetch_messages is called: last_err = None, and the loop starts
SafeFetchCall ==
    /\ fpc = "off"
    /\ fpc' = "loop"
    /\ fpath' = 1
    /\ last_err' = None
    /\ UNCHANGED <<fresult, attempts, storeSpecVars, searchVars, askVars>>

\* one round of the loop: url = MESSAGES_URL_BASE + p;
\* try: return _get_messages_once(url); except Exception as e: last_err = e
SafeFetchTry ==
    /\ fpc = "loop"
    /\ fpath <= Len(_PATHS)
    /\ \E a1, a2 \in Responses :
         LET url == MESSAGES_URL_BASE \o _PATHS[fpath]
             att == GetMessagesOnce(url, a1, a2)
         IN  /\ attempts' = Append(attempts, att)
             /\ IF att.ok
                THEN /\ fpc' = "returned"
                     /\ fresult' = att.payload
                     /\ UNCHANGED <<fpath, last_err>>
                ELSE /\ last_err' = NextLastErr(last_err, att.err)
                     /\ fpath' = fpath + 1
                     /\ UNCHANGED <<fpc, fresult>>
    /\ UNCHANGED <<storeSpecVars, searchVars, askVars>>

\* the loop is over: raise last_err
SafeFetchRaise ==
    /\ fpc = "loop"
    /\ fpath > Len(_PATHS)
    /\ fpc' = "raised"
    /\ UNCHANGED <<fpath, last_err, fresult, attempts, storeSpecVars,
                   searchVars, askVars>>

FetchInit == StoreInit /\ FetchOff /\ SearchOff /\ AskOff

FetchNext == SafeFetchCall \/ SafeFetchTry \/ SafeFetchRaise

SpecFetch == FetchInit /\ [][FetchNext]_vars

(***************************************************************************)
(* Properties of SpecFetch.                                                *)
(***************************************************************************)
\* C4: the paths are tried in the order of _PATHS; the first attempt that
\* succeeds ends the call, which returns that attempt's payload; when every
\* path has failed the call raises the error of the last path.
C4_FirstSuccessOrLastError ==
    /\ Len(attempts) <= Len(_PATHS)
    /\ \A i \in 1..Len(attempts) :
          /\ attempts[i].url = MESSAGES_URL_BASE \o _PATHS[i]
          /\ i < Len(attempts) => ~attempts[i].ok
    /\ fpc = "loop" => \A i \in 1..Len(attempts) : ~attempts[i].ok
    /\ fpc = "returned" =>
          /\ attempts[Len(attempts)].ok
          /\ fresult = attempts[Len(attempts)].payload
    /\ fpc = "raised" =>
          /\ Len(attempts) = Len(_PATHS)
          /\ \A i \in 1..Len(attempts) : ~attempts[i].ok
          /\ last_err = attempts[Len(attempts)].err
          /\ Val(last_err).url = MESSAGES_URL_BASE \o _PATHS[Len(_PATHS)]

\* /messages failed with an HTTP error, /messages/ failed on its body, and
\* the call raised the latter
C4_Witness ==
    /\ fpc = "raised"
    /\ Val(attempts[1].err).type = "HTTPError"
    /\ Val(last_err).type = "JSONDecodeError"

\* C5: an attempt whose final response is not a 2xx fails, and no payload
\* comes from such a response.  Fails: raise_for_status lets a 3xx pass,
\* and a 3xx that is not followed is then parsed as the payload.
C5_Non2xxFails ==
    \A i \in 1..Len(attempts) :
        (attempts[i].final.kind = "response"
            /\ ~(attempts[i].final.status \in 200..299)) => ~attempts[i].ok

RecallN == 100
\* k of _rrf
RrfK == 60
\* the 60 of heapq.nlargest
PoolM == 60

Min(a, b) == IF a <= b THEN a ELSE b

\* the orders np.argsort can give n positions
Perms(n) == {f \in [1..n -> 1..n] : \A a, b \in 1..n : f[a] = f[b] => a = b}

\* seq[:n]
Prefix(seq, n) == SubSeq(seq, 1, Min(n, Len(seq)))

\* whether x is an element of seq
InSeq(x, seq) == \E r \in 1..Len(seq) : seq[r] = x

\* the position of x in seq
IndexOf(x, seq) == CHOOSE r \in 1..Len(seq) : seq[r] = x

\* the number of documents self.bm25 scores, and of rows of self.embeddings
Docs(index) == IF index = None THEN 0 ELSE Len(Val(index).corpus)
Rows(embs) == IF embs = None THEN 0 ELSE Len(Val(embs))

\* _bm25_topn: [] if self.bm25 is None, else np.argsort(-scores)[:N]
BM25TopN(index, argsort, N) == IF index = None THEN << >> ELSE Prefix(argsort, N)

\* _embedding_topn: np.argsort(-sims)[:N] if len(sims) else []
EmbeddingTopN(embs, argsort, N) ==
    IF Rows(embs) > 0 THEN Prefix(argsort, N) ELSE << >>

\* the keys of ranks in insertion order: the positions of bm_idx, then those
\* of em_idx not among them
RankKeys(bm, em) == bm \o SelectSeq(em, LAMBDA i : ~InSeq(i, bm))

\* PosList with the index r for r+1
PosList_ZeroBased(i, bm, em) ==
    (IF InSeq(i, bm) THEN <<IndexOf(i, bm) - 1>> ELSE << >>)
    \o (IF InSeq(i, em) THEN <<IndexOf(i, em) - 1>> ELSE << >>)

\* ranks[i]: r+1 for each list that has i at index r
PosList(i, bm, em) ==
    (IF InSeq(i, bm) THEN <<IndexOf(i, bm)>> ELSE << >>)
    \o (IF InSeq(i, em) THEN <<IndexOf(i, em)>> ELSE << >>)

\* fractions <<numerator, denominator>>
FracAdd(a, b) == <<a[1] * b[2] + b[1] * a[2], a[2] * b[2]>>
FracGT(a, b) == a[1] * b[2] > b[1] * a[2]

\* the inner loop of _rrf: s = 0.0; for pos in pos_list: s += 1.0 / (k + pos)
RECURSIVE RrfScore(_, _)
RrfScore(pos_list, k) ==
    IF pos_list = << >> THEN <<0, 1>>
    ELSE FracAdd(RrfScore(SubSeq(pos_list, 1, Len(pos_list) - 1), k),
                 <<1, k + pos_list[Len(pos_list)]>>)

\* _rrf(ranks, k): the score of every key
Rrf(bm, em, k) ==
    [i \in {bm[r] : r \in 1..Len(bm)} \cup {em[r] : r \in 1..Len(em)} |->
        RrfScore(PosList(i, bm, em), k)]

\* heapq.nlargest(n, scores.items(), key=score): sorted by score, largest
\* first, equal scores in insertion order; the first n
NLargest(n, keys, score) ==
    LET Before(a, b) == \/ FracGT(score[keys[a]], score[keys[b]])
                        \/ (~FracGT(score[keys[b]], score[keys[a]]) /\ a < b)
        sorted == [r \in 1..Len(keys) |->
                     keys[CHOOSE a \in 1..Len(keys) :
                            Cardinality({b \in 1..Len(keys) : Before(b, a)})
                                = r - 1]]
    IN  Prefix(sorted, n)

\* TopOrder without the cut
TopOrder_All(order, k) == order

\* np.argsort(-np.asarray(ce_scores))[:top_k]
TopOrder(order, k) == Prefix(order, k)

\* a store that has loaded its models and the messages its
WarmWith(its) ==
    /\ embedder = Some("all-MiniLM-L6-v2")
    /\ reranker = Some("ms-marco-MiniLM-L-6-v2")
    /\ _models_ready = TRUE /\ loads = 1
    /\ items = Derive(its).items
    /\ texts = Derive(its).texts
    /\ embeddings = Derive(its).embs
    /\ bm25 = Derive(its).bm25
    /\ bm25_corpus = Derive(its).corpus_tok
    /\ user_names = Derive(its).user_names
    /\ now = 2 * _REFRESH_SEC /\ _last_fetch = now /\ loaded = TRUE
    /\ _lock = NoThread /\ ticks = 0
    /\ pc = [t \in Threads |-> "start"]
    /\ ret = [t \in Threads |-> "none"]
    /\ data = [t \in Threads |-> NoData]
    /\ rd = [t \in Threads |-> NoReads]
    /\ resp = [t \in Threads |-> "none"]
    /\ bgFail = "none" /\ failed = {}

\* a store that has loaded its models and a corpus of n messages
WarmStore(n) == WarmWith(Payload(n))

\* search is called, on a store just constructed or on a warm one
SearchInit ==
    /\ StoreInit \/ \E n \in 0..MaxCorpus : WarmStore(n)
    /\ FetchOff /\ AskOff
    /\ spc = "call"
    /\ cold = ~_models_ready
    /\ top_k \in 0..MaxTopK
    /\ bm_idx = << >> /\ em_idx = << >> /\ cand_idx = << >>
    /\ results = << >> /\ res_pos = << >>

searchFrame == <<_lock, now, ticks, pc, ret, data, rd, resp, bgFail, failed,
                 fetchVars, askVars, cold, top_k>>

\* self.ensure_fresh(), the only thread running: the models are loaded
\* unless they are, the corpus is fetched if NeedsRefresh; either may raise,
\* and the exception leaves search
SearchEnsureFresh ==
    /\ spc = "call"
    /\ \/ /\ ~_models_ready
          /\ spc' = "raised"
          /\ UNCHANGED <<storeVars, loads, loaded>>
       \/ /\ embedder' = Some("all-MiniLM-L6-v2")
          /\ reranker' = Some("ms-marco-MiniLM-L-6-v2")
          /\ _models_ready' = TRUE
          /\ loads' = IF _models_ready THEN loads ELSE loads + 1
          /\ IF NeedsRefresh(embeddings, now, _last_fetch)
             THEN \/ /\ spc' = "raised"
                     /\ UNCHANGED <<dataVars>>
                  \/ /\ spc' = "recall"
                     /\ \E n \in 0..MaxCorpus :
                          /\ items' = Derive(Payload(n)).items
                          /\ texts' = Derive(Payload(n)).texts
                          /\ embeddings' = Derive(Payload(n)).embs
                          /\ bm25' = Derive(Payload(n)).bm25
                          /\ bm25_corpus' = Derive(Payload(n)).corpus_tok
                          /\ user_names' = Derive(Payload(n)).user_names
                     /\ _last_fetch' = now
                     /\ loaded' = TRUE
             ELSE /\ spc' = "recall"
                  /\ UNCHANGED <<dataVars>>
    /\ UNCHANGED <<searchFrame, bm_idx, em_idx, cand_idx, results, res_pos>>

\* bm_idx = self._bm25_topn(query, N=100);
\* em_idx = self._embedding_topn(query, user_name, N=100)
SearchRecall ==
    /\ spc = "recall"
    /\ \E b \in Perms(Docs(bm25)), e \in Perms(Rows(embeddings)) :
          /\ bm_idx' = BM25TopN(bm25, b, RecallN)
          /\ em_idx' = EmbeddingTopN(embeddings, e, RecallN)
    /\ spc' = "fuse"
    /\ UNCHANGED <<searchFrame, storeVars, loads, loaded, cand_idx, results,
                   res_pos>>

\* ranks, rrf_scores = _rrf(ranks, k=60), topM = heapq.nlargest(60, ..),
\* cand_idx; if not cand_idx: return []
SearchFuse ==
    /\ spc = "fuse"
    /\ cand_idx' = NLargest(PoolM, RankKeys(bm_idx, em_idx),
                            Rrf(bm_idx, em_idx, RrfK))
    /\ spc' = IF cand_idx' = << >> THEN "done" ELSE "rerank"
    /\ UNCHANGED <<searchFrame, storeVars, loads, loaded, bm_idx, em_idx,
                   results, res_pos>>

\* ce_scores = self.reranker.predict(pairs); order = argsort(-ce_scores)
\* [:top_k]; results: for j in order, the item at cand_idx[j] with
\* ce_scores[j], a score that falls along the argsort
SearchRerank ==
    /\ spc = "rerank"
    /\ \E argsort \in Perms(Len(cand_idx)) :
          LET order == TopOrder(argsort, top_k)
          IN  /\ res_pos' = [r \in 1..Len(order) |-> cand_idx[order[r]]]
              /\ results' = [r \in 1..Len(order) |->
                    [user_name |-> items[cand_idx[order[r]]].user_name,
                     timestamp |-> items[cand_idx[order[r]]].timestamp,
                     message |-> items[cand_idx[order[r]]].message,
                     score |-> 0 - IndexOf(order[r], argsort)]]
    /\ spc' = "done"
    /\ UNCHANGED <<searchFrame, storeVars, loads, loaded, bm_idx, em_idx,
                   cand_idx>>

SearchNext ==
    SearchEnsureFresh \/ SearchRecall \/ SearchFuse \/ SearchRerank

SpecSearch == SearchInit /\ [][SearchNext]_vars

(***************************************************************************)
(* Properties of SpecSearch.                                               *)
(***************************************************************************)
\* C9: search returns at most top_k results and no more than the corpus has
\* messages; every result is the message at a position of the snapshot, and
\* no position is returned twice.
C9_ResultsWithinCorpus ==
    spc = "done" =>
        /\ Len(results) <= top_k
        /\ Len(results) <= Len(items)
        /\ Len(res_pos) = Len(results)
        /\ \A r \in 1..Len(results) :
              /\ res_pos[r] \in 1..Len(items)
              /\ results[r].user_name = items[res_pos[r]].user_name
              /\ results[r].timestamp = items[res_pos[r]].timestamp
              /\ results[r].message = items[res_pos[r]].message
        /\ \A r, u \in 1..Len(results) : res_pos[r] = res_pos[u] => r = u

\* a corpus larger than top_k is cut to top_k results
C9_Witness ==
    /\ spc = "done"
    /\ top_k > 0
    /\ Len(items) > top_k
    /\ Len(results) = top_k

\* C10: a search called before the models are loaded returns the first
\* top_k candidates in fused-score order, not reranked.  Fails: search
\* calls ensure_fresh first, which loads the models, and then always
\* reranks.
C10_ColdSearchKeepsFusedOrder ==
    (spc = "done" /\ cold) => res_pos = Prefix(cand_idx, top_k)

(***************************************************************************)
(* Text.  The gates of ask look inside strings (substring tests, regular   *)
(* expressions), so a string of the question or of a snippet is the        *)
(* sequence of its characters.  The inputs are ASCII; the curly quotes     *)
(* the patterns of utils.py also name do not occur in them.                *)
(***************************************************************************)
UpperCase == <<"A", "B", "C", "D", "E", "F", "G", "H", "I", "J", "K", "L", "M", "N", "O", "P", "Q", "R", "S", "T", "U", "V", "W", "X", "Y", "Z">>
LowerCase == <<"a", "b", "c", "d", "e", "f", "g", "h", "i", "j", "k", "l", "m", "n", "o", "p", "q", "r", "s", "t", "u", "v", "w", "x", "y", "z">>

IsUpper(c) == \E i \in 1..Len(UpperCase) : UpperCase[i] = c
IsAlpha(c) == IsUpper(c) \/ \E i \in 1..Len(LowerCase) : LowerCase[i] = c
IsDigit(c) == c \in {"0", "1", "2", "3", "4", "5", "6", "7", "8", "9"}
\* \s
IsSpace(c) == c \in {" ", "\t", "\n"}
\* \w
IsWordChar(c) == IsAlpha(c) \/ IsDigit(c) \/ c = "_"

\* str.lower()
LowerChar(c) ==
    IF IsUpper(c)
    THEN LowerCase[CHOOSE i \in 1..Len(UpperCase) : UpperCase[i] = c]
    ELSE c
ToLower(s) == [i \in 1..Len(s) |-> LowerChar(s[i])]

\* s[i:].startswith(w), i counted from 1
HasAt(s, i, w) == i + Len(w) - 1 <= Len(s) /\ SubSeq(s, i, i + Len(w) - 1) = w

\* w in s
Contains(s, w) == \E i \in 1..(Len(s) - Len(w) + 1) : HasAt(s, i, w)

\* the end of the longest run of characters of s that starts at i, ok[k]
\* telling whether s[k] belongs to a run (i - 1 if s[i] does not)
RunEnd(s, i, ok) ==
    CHOOSE j \in (i - 1)..Len(s) :
        /\ \A k \in i..j : ok[k]
        /\ j = Len(s) \/ ~ok[j + 1]

NotSpace(c) == ~IsSpace(c)

\* str.split()
RECURSIVE Split(_)
Split(s) ==
    IF s = << >> THEN << >>
    ELSE IF IsSpace(s[1]) THEN Split(Tail(s))
    ELSE LET j == RunEnd(s, 1, [k \in DOMAIN s |-> NotSpace(s[k])])
         IN  <<SubSeq(s, 1, j)>> \o Split(SubSeq(s, j + 1, Len(s)))

\* " ".join(words)
RECURSIVE JoinSpace(_)
JoinSpace(words) ==
    IF words = << >> THEN << >>
    ELSE IF Len(words) = 1 THEN words[1]
    ELSE words[1] \o <<" ">> \o JoinSpace(Tail(words))

\* str.strip()
Strip(s) ==
    IF \A i \in 1..Len(s) : IsSpace(s[i]) THEN << >>
    ELSE LET a == CHOOSE i \in 1..Len(s) :
                    NotSpace(s[i]) /\ \A k \in 1..(i - 1) : IsSpace(s[k])
             b == CHOOSE i \in 1..Len(s) :
                    NotSpace(s[i]) /\ \A k \in (i + 1)..Len(s) : IsSpace(s[k])
         IN  SubSeq(s, a, b)

\* the elements of a sequence
Range(seq) == {seq[i] : i \in 1..Len(seq)}

\* normalize_text: " ".join(s.strip().split())
NormalizeText(s) == JoinSpace(Split(Strip(s)))

(***************************************************************************)
(* re.search, for the patterns of utils.py: a pattern is matched piece by  *)
(* piece, each piece taking the set of positions the match may have        *)
(* reached to the set it may reach next; the pattern is found if the last  *)
(* set is not empty.  Position i is the one before s[i].                   *)
(***************************************************************************)
\* \b at position i
Boundary(s, i) ==
    LET W(k) == k \in 1..Len(s) /\ IsWordChar(s[k])
    IN  W(i - 1) # W(i)

\* the positions a match may start at when the pattern begins with \b
Starts(s) == {i \in 1..(Len(s) + 1) : Boundary(s, i)}

\* \b in the middle or at the end of a pattern
AtBoundary(s, I) == {i \in I : Boundary(s, i)}

\* one of the literals W
AnyLit(s, I, W) ==
    UNION {{i + Len(w) : i \in {k \in I : HasAt(s, k, w)}} : w \in W}

\* \d{lo,hi}
Digits(s, I, lo, hi) ==
    UNION {{i + n : n \in {m \in lo..hi :
                              /\ i + m - 1 <= Len(s)
                              /\ \A k \in i..(i + m - 1) : IsDigit(s[k])}}
           : i \in I}

\* \s{lo,}
Spaces(s, I, lo) ==
    {j \in 1..(Len(s) + 1) :
        \E i \in I : j >= i + lo /\ \A k \in i..(j - 1) : IsSpace(s[k])}

\* one character of the class C
OneOf(s, I, C) == {i + 1 : i \in {k \in I : k <= Len(s) /\ s[k] \in C}}

(***************************************************************************)
(* app/utils.py                                                            *)
(***************************************************************************)
\* extract_candidate_name.  token_set_ratio is 100 for a name whose tokens
\* are all tokens of the question; every other score of rapidfuzz is a
\* number this model does not compute.  The function returns None for an
\* empty list of names; a name that scored 100 against the question or
\* against its longest capitalized span (a part of the question) if some
\* name's tokens are all in the question; and otherwise None or any name,
\* as the scores come out.
ExtractCandidateName(qq, all_names) ==
    LET sure == {n \in Range(all_names) :
                    Range(Split(n)) \subseteq Range(Split(qq))}
        near == {n \in Range(all_names) :
                    \E tok \in Range(Split(n)) : Contains(qq, tok)}
    IN  IF all_names = << >> THEN {None}
        ELSE IF sure # {} THEN {Some(n) : n \in near}
        ELSE {None} \cup {Some(n) : n \in Range(all_names)}

_GENERIC == {
    <<"w", "h", "a", "t">>, <<"w", "h", "i", "c", "h">>, <<"w", "h", "o">>,
    <<"w", "h", "e", "n">>, <<"w", "h", "e", "r", "e">>, <<"w", "h", "y">>,
    <<"h", "o", "w">>, <<"m", "u", "c", "h">>, <<"m", "a", "n", "y">>,
    <<"p", "l", "a", "n">>, <<"p", "l", "a", "n", "n", "i", "n", "g">>,
    <<"t", "r", "i", "p">>, <<"t", "r", "a", "v", "e", "l">>,
    <<"v", "a", "c", "a", "t", "i", "o", "n">>, <<"b", "o", "o", "k">>,
    <<"b", "o", "o", "k", "i", "n", "g">>, <<"s", "e", "c", "u", "r", "e">>,
    <<"a", "r", "r", "a", "n", "g", "e">>, <<"n", "e", "e", "d">>,
    <<"w", "a", "n", "t">>,
    <<"r", "e", "s", "t", "a", "u", "r", "a", "n", "t">>,
    <<"r", "e", "s", "t", "a", "u", "r", "a", "n", "t", "s">>,
    <<"d", "i", "n", "n", "e", "r">>,
    <<"r", "e", "s", "e", "r", "v", "a", "t", "i", "o", "n">>,
    <<"r", "e", "s", "e", "r", "v", "a", "t", "i", "o", "n", "s">>,
    <<"t", "a", "b", "l", "e">>, <<"t", "a", "b", "l", "e", "s">>,
    <<"s", "e", "a", "t">>, <<"s", "e", "a", "t", "s">>,
    <<"f", "a", "m", "i", "l", "y">>, <<"p", "l", "e", "a", "s", "e">>,
    <<"t", "h", "a", "n", "k", "s">>, <<"t", "h", "a", "n", "k">>,
    <<"y", "o", "u">>, <<"m", "y">>, <<"h", "i", "s">>, <<"h", "e", "r">>,
    <<"t", "h", "e", "i", "r">>, <<"t", "h", "e">>, <<"a">>, <<"a", "n">>,
    <<"a", "t">>, <<"f", "o", "r">>, <<"t", "o">>, <<"i", "n">>,
    <<"o", "n">>, <<"w", "i", "t", "h">>, <<"o", "f">>, <<"a", "n", "d">>,
    <<"o", "r">>, <<"i", "s">>, <<"a", "r", "e">>, <<"w", "a", "s">>,
    <<"w", "e", "r", "e">>, <<"d", "o">>, <<"d", "o", "e", "s">>,
    <<"d", "i", "d">> }

\* the characters a match of _WORD goes on with: [a-zA-Z\-']
IsWordTail(c) == IsAlpha(c) \/ c \in {"-", "'"}

\* _WORD.findall(s[i:]), _WORD = [a-zA-Z][a-zA-Z\-']+
RECURSIVE FindWords(_, _)
FindWords(s, i) ==
    IF i > Len(s) THEN << >>
    ELSE IF IsAlpha(s[i]) /\ i < Len(s) /\ IsWordTail(s[i + 1])
    THEN LET j == RunEnd(s, i + 1, [k \in DOMAIN s |-> IsWordTail(s[k])])
         IN  <<SubSeq(s, i, j)>> \o FindWords(s, j + 1)
    ELSE FindWords(s, i + 1)

\* the phrases of re.findall(r'"([^"]+)"|...|\'([^\']+)\'', s[i:]): a quote
\* character, one or more characters that are not it, and it again
RECURSIVE FindQuoted(_, _)
FindQuoted(s, i) ==
    IF i > Len(s) THEN << >>
    ELSE IF /\ s[i] \in {"\"", "'"}
            /\ \E j \in (i + 2)..Len(s) :
                  s[j] = s[i] /\ \A k \in (i + 1)..(j - 1) : s[k] # s[i]
    THEN LET j == CHOOSE j \in (i + 2)..Len(s) :
                    s[j] = s[i] /\ \A k \in (i + 1)..(j - 1) : s[k] # s[i]
         IN  <<SubSeq(s, i + 1, j - 1)>> \o FindQuoted(s, j + 1)
    ELSE FindQuoted(s, i + 1)

\* the loop of lines 102-108: the terms that are not empty, each once, in
\* the order of their first occurrence
RECURSIVE Dedupe(_)
Dedupe(seq) ==
    IF seq = << >> THEN << >>
    ELSE LET rest == Dedupe(SubSeq(seq, 1, Len(seq) - 1))
             t == seq[Len(seq)]
         IN  IF t = << >> \/ t \in Range(rest) THEN rest ELSE Append(rest, t)

\* out[:5]
FocusCap == 5

\* extract_focus_terms(question, person_name)
ExtractFocusTerms(qq, person_name) ==
    LET s == Strip(qq)
        phrases == FindQuoted(s, 1)
        found == FindWords(s, 1)
        words == [i \in 1..Len(found) |-> ToLower(found[i])]
        name_tokens == IF person_name = None \/ person_name = Some(<< >>)
                       THEN {}
                       ELSE Range(Split(ToLower(Val(person_name))))
        focus_words == SelectSeq(words, LAMBDA w :
                          Len(w) > 2 /\ w \notin name_tokens
                                     /\ w \notin _GENERIC)
        all == phrases \o focus_words
        cleaned == [i \in 1..Len(all) |-> ToLower(Strip(all[i]))]
    IN  Prefix(Dedupe(cleaned), FocusCap)

MonthAbbr == {
    <<"j", "a", "n">>, <<"f", "e", "b">>, <<"m", "a", "r">>,
    <<"a", "p", "r">>, <<"m", "a", "y">>, <<"j", "u", "n">>,
    <<"j", "u", "l">>, <<"a", "u", "g">>, <<"s", "e", "p">>,
    <<"s", "e", "p", "t">>, <<"o", "c", "t">>, <<"n", "o", "v">>,
    <<"d", "e", "c">> }
MonthSuffix == {
    <<"u", "a", "r", "y">>, <<"c", "h">>, <<"r", "i", "l">>, <<"e">>,
    <<"y">>, <<"u", "s", "t">>, <<"t", "e", "m", "b", "e", "r">>,
    <<"o", "b", "e", "r">>, <<"e", "m", "b", "e", "r">> }
MonthNames == MonthAbbr \cup {
    <<"j", "a", "n", "u", "a", "r", "y">>,
    <<"f", "e", "b", "r", "u", "a", "r", "y">>, <<"m", "a", "r", "c", "h">>,
    <<"a", "p", "r", "i", "l">>, <<"j", "u", "n", "e">>,
    <<"j", "u", "l", "y">>, <<"a", "u", "g", "u", "s", "t">>,
    <<"s", "e", "p", "t", "e", "m", "b", "e", "r">>,
    <<"o", "c", "t", "o", "b", "e", "r">>,
    <<"n", "o", "v", "e", "m", "b", "e", "r">>,
    <<"d", "e", "c", "e", "m", "b", "e", "r">> }
RelativeDays == {
    <<"t", "o", "d", "a", "y">>, <<"t", "o", "m", "o", "r", "r", "o", "w">>,
    <<"t", "o", "n", "i", "g", "h", "t">>, <<"t", "o", "n", "i", "t", "e">>,
    <<"y", "e", "s", "t", "e", "r", "d", "a", "y">> }
Weekdays == {
    <<"m", "o", "n">>, <<"t", "u", "e">>, <<"t", "u", "e", "s">>,
    <<"w", "e", "d">>, <<"t", "h", "u">>, <<"t", "h", "u", "r">>,
    <<"t", "h", "u", "r", "s">>, <<"f", "r", "i">>, <<"s", "a", "t">>,
    <<"s", "u", "n">>, <<"m", "o", "n", "d", "a", "y">>,
    <<"t", "u", "e", "s", "d", "a", "y">>,
    <<"w", "e", "d", "n", "e", "s", "d", "a", "y">>,
    <<"t", "h", "u", "r", "s", "d", "a", "y">>,
    <<"f", "r", "i", "d", "a", "y">>,
    <<"s", "a", "t", "u", "r", "d", "a", "y">>,
    <<"s", "u", "n", "d", "a", "y">> }
Periods == {
    <<"w", "e", "e", "k">>, <<"w", "e", "e", "k", "e", "n", "d">>,
    <<"m", "o", "n", "t", "h">>, <<"q", "u", "a", "r", "t", "e", "r">>,
    <<"y", "e", "a", "r">> }
Ordinals == {
    <<"f", "i", "r", "s", "t">>, <<"s", "e", "c", "o", "n", "d">>,
    <<"t", "h", "i", "r", "d">>, <<"f", "o", "u", "r", "t", "h">> }

\* has_dateish: bool(_DATEISH.search(text or "")), the seven alternatives of
\* _DATEISH in their order, IGNORECASE
HasDateish(text) ==
    LET s == ToLower(text)
        B == Starts(s)
        dash == {"/", "-"}
        iso == Digits(s, AnyLit(s, Digits(s, AnyLit(s, Digits(s, B, 4, 4),
                    {<<"-">>}), 2, 2), {<<"-">>}), 2, 2)
        dm == Digits(s, OneOf(s, Digits(s, B, 1, 2), dash), 1, 2)
        dmy == dm \cup Digits(s, OneOf(s, dm, dash), 2, 4)
        mon == AnyLit(s, B, MonthAbbr)
        month == mon \cup AnyLit(s, mon, MonthSuffix)
        md == Digits(s, Spaces(s, month, 1), 1, 2)
        mdy == md \cup Digits(s, Spaces(s, AnyLit(s, md, {<<",">>}), 0), 4, 4)
        rel == AnyLit(s, B, RelativeDays)
        qual == B \cup AnyLit(s, B, {<<"t", "h", "i", "s">>, <<"n", "e", "x", "t">>, <<"c", "o", "m", "i", "n", "g">>})
        wday == AnyLit(s, Spaces(s, qual, 0), Weekdays)
        per == AnyLit(s, Spaces(s, AnyLit(s, B, {<<"t", "h", "i", "s">>, <<"n", "e", "x", "t">>}), 1),
                      Periods)
        wk == AnyLit(s, Spaces(s, AnyLit(s, B, Ordinals), 1), {<<"w", "e", "e", "k">>})
        wkof == AnyLit(s, Spaces(s, wk, 1), {<<"o", "f">>})
        ord == AnyLit(s, Spaces(s, wkof, 1), MonthNames)
    IN  \/ AtBoundary(s, iso) # {}
        \/ AtBoundary(s, dmy) # {}
        \/ AtBoundary(s, mdy) # {}
        \/ AtBoundary(s, rel) # {}
        \/ AtBoundary(s, wday) # {}
        \/ AtBoundary(s, per) # {}
        \/ AtBoundary(s, ord) # {}

_NUMBER_WORDS == {
    <<"z", "e", "r", "o">>, <<"o", "n", "e">>, <<"t", "w", "o">>,
    <<"t", "h", "r", "e", "e">>, <<"f", "o", "u", "r">>,
    <<"f", "i", "v", "e">>, <<"s", "i", "x">>, <<"s", "e", "v", "e", "n">>,
    <<"e", "i", "g", "h", "t">>, <<"n", "i", "n", "e">>, <<"t", "e", "n">>,
    <<"e", "l", "e", "v", "e", "n">>, <<"t", "w", "e", "l", "v", "e">>,
    <<"t", "h", "i", "r", "t", "e", "e", "n">>,
    <<"f", "o", "u", "r", "t", "e", "e", "n">>,
    <<"f", "i", "f", "t", "e", "e", "n">>,
    <<"s", "i", "x", "t", "e", "e", "n">>,
    <<"s", "e", "v", "e", "n", "t", "e", "e", "n">>,
    <<"e", "i", "g", "h", "t", "e", "e", "n">>,
    <<"n", "i", "n", "e", "t", "e", "e", "n">>,
    <<"t", "w", "e", "n", "t", "y">>, <<"t", "h", "i", "r", "t", "y">>,
    <<"f", "o", "r", "t", "y">>, <<"f", "i", "f", "t", "y">>,
    <<"s", "i", "x", "t", "y">>, <<"s", "e", "v", "e", "n", "t", "y">>,
    <<"e", "i", "g", "h", "t", "y">>, <<"n", "i", "n", "e", "t", "y">>,
    <<"h", "u", "n", "d", "r", "e", "d">>,
    <<"t", "h", "o", "u", "s", "a", "n", "d">>,
    <<"m", "i", "l", "l", "i", "o", "n">> }

\* has_quantityish: re.search(r"\b\d+\b", t) or any(w in t for w in
\* _NUMBER_WORDS), t = text.lower()
HasQuantityish(text) ==
    LET t == ToLower(text)
    IN  \/ AtBoundary(t, Digits(t, Starts(t), 1, Len(t))) # {}
        \/ \E w \in _NUMBER_WORDS : Contains(t, w)

(***************************************************************************)
(* GET /ask (app/main.py 56-125) on a warm store with a fresh snapshot:    *)
(* the person, the search, the gates, the synthesis.                       *)
(***************************************************************************)
\* the largest corpus of SpecAsk
MaxSnippets == 2

\* top_k of the search ask runs
AskTopK == 10

\* the messages the upstream may serve to SpecAsk
AskUpstream == <<
    [user_name |-> <<"A", "n", "a">>, timestamp |-> <<"2", "0", "2", "5", "-", "1", "1", "-", "1", "0">>,
     message |-> <<
    "A", "n", "a", " ", "b", "o", "o", "k", "e", "d", " ", "a", " ", "f",
    "l", "i", "g", "h", "t", " ", "t", "o", " ", "L", "o", "n", "d", "o", "n" >>],
    [user_name |-> <<"B", "o", "b">>, timestamp |-> <<"2", "0", "2", "5", "-", "1", "1", "-", "1", "1">>,
     message |-> <<
    "B", "o", "b", " ", "w", "a", "n", "t", "s", " ", "t", "w", "o", " ",
    "s", "e", "a", "t", "s" >>],
    [user_name |-> <<"B", "o", "b">>, timestamp |-> <<"2", "0", "2", "5", "-", "1", "1", "-", "1", "2">>,
     message |-> <<
    "B", "o", "b", " ", "s", "a", "w", " ", "L", "o", "n", "d", "o", "n",
    " ", "o", "n", " ", "1", "1", "/", "1", "2" >>],
    [user_name |-> <<"A", "n", "a">>, timestamp |-> <<"2", "0", "2", "5", "-", "1", "1", "-", "1", "3">>,
     message |-> <<
    "A", "n", "a", " ", "a", "s", "k", "e", "d", " ", "a", "b", "o", "u",
    "t", " ", "b", "i", "l", "l", "i", "n", "g" >>] >>

\* the corpora: the messages of AskUpstream at the positions m, in order
Pick(m) ==
    LET idx == SelectSeq([i \in 1..Len(AskUpstream) |-> i], LAMBDA i : i \in m)
    IN  [k \in 1..Len(idx) |-> AskUpstream[idx[k]]]
Corpora ==
    {Pick(m) : m \in {x \in SUBSET (1..Len(AskUpstream)) :
                         Cardinality(x) <= MaxSnippets}}

WhenDidAnaGo == <<
    "W", "h", "e", "n", " ", "d", "i", "d", " ", "A", "n", "a", " ", "g",
    "o", " ", "t", "o", " ", "L", "o", "n", "d", "o", "n", "?" >>
HowManyFlights == <<
    "H", "o", "w", " ", "m", "a", "n", "y", " ", "f", "l", "i", "g", "h",
    "t", "s", " ", "d", "i", "d", " ", "A", "n", "a", " ", "b", "o", "o",
    "k", "?" >>
WhatIsThePlan == <<
    " ", "W", "h", "a", "t", " ", "i", "s", " ", " ", "t", "h", "e", " ",
    "p", "l", "a", "n", "?" >>
WhenWasTheDinner == <<
    "W", "h", "e", "n", " ", "w", "a", "s", " ", "t", "h", "e", " ", "d",
    "i", "n", "n", "e", "r", "?" >>
WhoSaid == <<
    "W", "h", "o", " ", "s", "a", "i", "d", " ", "\"", "t", "w", "o", " ",
    "s", "e", "a", "t", "s", "\"", "?" >>
HowMuchDidBobWant == <<
    "H", "o", "w", " ", "m", "u", "c", "h", " ", "d", "i", "d", " ", "B",
    "o", "b", " ", "w", "a", "n", "t", "?" >>

\* the questions asked
Questions == {WhenDidAnaGo, HowManyFlights, WhatIsThePlan, WhenWasTheDinner,
              WhoSaid, HowMuchDidBobWant}

\* the tags of the refusals
NoFocus == "no message with focus terms"
GuardWhen == "type guard when"
GuardQuantity == "type guard how many/much"
NoEvidence == "no evidence at all"

\* f"{s['user_name']} {s['timestamp']} {s['message']}".lower()
SnippetText(s) ==
    ToLower(s.user_name \o <<" ">> \o s.timestamp \o <<" ">> \o s.message)

\* _has_focus_in_same_snippet without same_user
HasFocusInSameSnippet_AnyUser(s, nm, fc) ==
    \E i \in 1..Len(fc) : Contains(SnippetText(s), fc[i])

\* _has_focus_in_same_snippet(s), for the name and the focus of ask
HasFocusInSameSnippet(s, nm, fc) ==
    /\ nm = None \/ s.user_name = Val(nm)
    /\ \E i \in 1..Len(fc) : Contains(SnippetText(s), fc[i])

\* if focus: if not any(_has_focus_in_same_snippet(s) for s in snippets)
FocusGateFails(nm, fc, snips) ==
    /\ fc # << >>
    /\ ~\E i \in 1..Len(snips) : HasFocusInSameSnippet(snips[i], nm, fc)

\* WhenGateFails looking for the date in the whole snippet
WhenGateFails_Composed(qq, snips) ==
    /\ Contains(ToLower(qq), <<"w", "h", "e", "n">>)
    /\ ~\E i \in 1..Len(snips) : HasDateish(SnippetText(snips[i]))

\* "when" in low and not any(has_dateish(s["message"]) for s in snippets)
WhenGateFails(qq, snips) ==
    /\ Contains(ToLower(qq), <<"w", "h", "e", "n">>)
    /\ ~\E i \in 1..Len(snips) : HasDateish(snips[i].message)

\* ("how many" in low or "how much" in low) and not has_quantityish(
\* " ".join(s["message"] for s in snippets))
QuantityGateFails(qq, snips) ==
    /\ \/ Contains(ToLower(qq), <<"h", "o", "w", " ", "m", "a", "n", "y">>)
       \/ Contains(ToLower(qq), <<"h", "o", "w", " ", "m", "u", "c", "h">>)
    /\ ~HasQuantityish(JoinSpace([i \in 1..Len(snips) |-> snips[i].message]))

\* EmptyGateFails never failing
EmptyGateFails_Never(snips) == FALSE

\* not snippets
EmptyGateFails(snips) == snips = << >>

\* Gatekeeper with the check for no snippets first
Gatekeeper_EmptyFirst(qq, nm, fc, snips) ==
    IF EmptyGateFails(snips) THEN NoEvidence
    ELSE IF FocusGateFails(nm, fc, snips) THEN NoFocus
    ELSE IF WhenGateFails(qq, snips) THEN GuardWhen
    ELSE IF QuantityGateFails(qq, snips) THEN GuardQuantity
    ELSE "allow"

\* main.py 86-103: the four returns, in the order of the source
Gatekeeper(qq, nm, fc, snips) ==
    IF FocusGateFails(nm, fc, snips) THEN NoFocus
    ELSE IF WhenGateFails(qq, snips) THEN GuardWhen
    ELSE IF QuantityGateFails(qq, snips) THEN GuardQuantity
    ELSE IF EmptyGateFails(snips) THEN NoEvidence
    ELSE "allow"

\* what search returns for the argsorts b (BM25), e (embeddings) and c
\* (cross-encoder) when nothing changes the store under it (lines 168-196)
SearchResults(b, e, c, k) ==
    LET bm == BM25TopN(bm25, b, RecallN)
        em == EmbeddingTopN(embeddings, e, RecallN)
        cand == NLargest(PoolM, RankKeys(bm, em), Rrf(bm, em, RrfK))
        order == TopOrder(c, k)
    IN  [r \in 1..Len(order) |->
            [user_name |-> items[cand[order[r]]].user_name,
             timestamp |-> items[cand[order[r]]].timestamp,
             message |-> items[cand[order[r]]].message,
             score |-> 0 - IndexOf(order[r], c)]]

\* ask is called with a question, on a warm store
AskInit ==
    /\ \E c \in Corpora : WarmWith(c)
    /\ FetchOff /\ SearchOff
    /\ apc = "call"
    /\ question \in Questions
    /\ q = << >> /\ name = None /\ snippets = << >> /\ focus = << >>
    /\ reason = "none" /\ synth_with = None /\ answer = "none"

askFrame == <<storeSpecVars, fetchVars, searchVars, question>>

\* q = normalize_text(question); store.ensure_fresh(), which finds the
\* models loaded and the snapshot fresh
AskNormalize ==
    /\ apc = "call"
    /\ _models_ready /\ ~NeedsRefresh(embeddings, now, _last_fetch)
    /\ q' = NormalizeText(question)
    /\ apc' = "name"
    /\ UNCHANGED <<askFrame, name, snippets, focus, reason, synth_with,
                   answer>>

\* name, _ = extract_candidate_name(q, store.user_names)
AskName ==
    /\ apc = "name"
    /\ name' \in ExtractCandidateName(q, user_names)
    /\ apc' = "search"
    /\ UNCHANGED <<askFrame, q, snippets, focus, reason, synth_with, answer>>

\* snippets = store.search(query, user_name=name, top_k=10)
AskRetrieve ==
    /\ apc = "search"
    /\ \E b \in Perms(Docs(bm25)), e \in Perms(Rows(embeddings)) :
         \E c \in Perms(Max(Docs(bm25), Rows(embeddings))) :
            snippets' = SearchResults(b, e, c, AskTopK)
    /\ apc' = "gates"
    /\ UNCHANGED <<askFrame, q, name, focus, reason, synth_with, answer>>

\* focus = extract_focus_terms(q, name) and the gates: a refusal is the
\* response, with its tag
AskGates ==
    /\ apc = "gates"
    /\ focus' = ExtractFocusTerms(q, name)
    /\ LET verdict == Gatekeeper(q, name, focus', snippets)
       IN  IF verdict = "allow"
           THEN /\ apc' = "synth"
                /\ UNCHANGED <<reason, answer>>
           ELSE /\ apc' = "done"
                /\ reason' = verdict
                /\ answer' = "refusal"
    /\ UNCHANGED <<askFrame, q, name, snippets, synth_with>>

\* answer = synthesize_answer(q, snippets): the model's sentence, or the
\* fallback of llm.py (no key, empty output, exception)
AskSynthesize ==
    /\ apc = "synth"
    /\ synth_with' = Some(snippets)
    /\ answer' \in {"llm", "fallback"}
    /\ apc' = "done"
    /\ UNCHANGED <<askFrame, q, name, snippets, focus, reason>>

AskNext == AskNormalize \/ AskName \/ AskRetrieve \/ AskGates \/ AskSynthesize

SpecAsk == AskInit /\ [][AskNext]_vars

(***************************************************************************)
(* Properties of SpecAsk.                                                  *)
(***************************************************************************)
\* the tags of the gates that fail for the question, the person, the focus
\* terms and the snippets of the request, in the order focus terms, when,
\* quantity, non-empty
FailingGates ==
    SelectSeq(<<NoFocus, GuardWhen, GuardQuantity, NoEvidence>>,
              LAMBDA g :
                 \/ g = NoFocus /\ FocusGateFails(name, focus, snippets)
                 \/ g = GuardWhen /\ WhenGateFails(q, snippets)
                 \/ g = GuardQuantity /\ QuantityGateFails(q, snippets)
                 \/ g = NoEvidence /\ EmptyGateFails(snippets))

C12_EmptyCorpusNoEvidence ==
    (apc = "done" /\ items = << >>) =>
        (snippets = << >> /\ answer = "refusal" /\ reason = NoEvidence)

\* C12 amended: on an empty corpus search returns nothing and every
\* question is refused, without synthesis; the tag is "no evidence at all"
\* exactly for a question without focus terms, without "when" and without
\* "how many"/"how much", and otherwise that of the first of these three
\* the question has.
C12_EmptyCorpusRefused ==
    (apc = "done" /\ items = << >>) =>
        /\ snippets = << >>
        /\ answer = "refusal"
        /\ synth_with = None
        /\ reason =
             (IF ExtractFocusTerms(q, None) # << >> THEN NoFocus
              ELSE IF Contains(ToLower(q), <<"w", "h", "e", "n">>) THEN GuardWhen
              ELSE IF \/ Contains(ToLower(q), <<"h", "o", "w", " ", "m", "a", "n", "y">>)
                      \/ Contains(ToLower(q), <<"h", "o", "w", " ", "m", "u", "c", "h">>)
                   THEN GuardQuantity
              ELSE NoEvidence)

\* a question without focus terms, "when" or a quantity, on an empty corpus
C12_Witness ==
    /\ apc = "done"
    /\ items = << >>
    /\ reason = NoEvidence

\* C13: with Ana's message as the whole corpus and the question "When did
\* Ana go to London?", no gate refuses and synthesize_answer is called with
\* that one snippet.  Fails: the when gate looks for the date in the
\* message, not in the timestamp.
C13_Scenario1Synthesizes ==
    (apc = "done" /\ items = <<AskUpstream[1]>> /\ question = WhenDidAnaGo) =>
        /\ reason = "none"
        /\ synth_with # None
        /\ Len(Val(synth_with)) = 1
        /\ Val(synth_with)[1].message = AskUpstream[1].message

\* C14: with Ana's message as the whole corpus and the question "How many
\* flights did Ana book?", the request is refused with "type guard how
\* many/much".  Fails: the focus term "flights" is in no snippet, and the
\* focus gate refuses first.
C14_Scenario2QuantityRefusal ==
    (apc = "done" /\ items = <<AskUpstream[1]>>
                  /\ question = HowManyFlights) =>
        (answer = "refusal" /\ reason = GuardQuantity)

\* the question contains "when" and no snippet's message has a date
WhenWithoutDate ==
    /\ Contains(ToLower(q), <<"w", "h", "e", "n">>)
    /\ \A i \in 1..Len(snippets) : ~HasDateish(snippets[i].message)

LondonInSnippets ==
    \E i \in 1..Len(snippets) : Contains(SnippetText(snippets[i]), <<"l", "o", "n", "d", "o", "n">>)

\* C16 as claimed: with "london" the focus term, the request is refused if
\* no candidate's composed text contains "london", and the focus gate
\* lets it pass if some candidate's does.  Fails: the candidate must also be
\* the detected person's.
C16_LondonAnyCandidate ==
    (apc = "done" /\ focus = <<<<"l", "o", "n", "d", "o", "n">>>>) =>
        /\ ~LondonInSnippets => (answer = "refusal" /\ reason = NoFocus)
        /\ LondonInSnippets => reason # NoFocus

\* some snippet of the detected person, or any snippet if none was
\* detected, has "london" in its composed text
LondonInPersonsSnippets ==
    \E i \in 1..Len(snippets) :
        /\ name = None \/ snippets[i].user_name = Val(name)
        /\ Contains(SnippetText(snippets[i]), <<"l", "o", "n", "d", "o", "n">>)

\* C16 amended: with "london" the focus term, the request is refused, with
\* "no message with focus terms", if no candidate of the detected person
\* (no candidate at all, if no person was detected) has "london" in its
\* composed text, compared in lower case; the focus gate lets it pass if
\* such a candidate has.
C16_LondonPersonsCandidate ==
    (apc = "done" /\ focus = <<<<"l", "o", "n", "d", "o", "n">>>>) =>
        /\ ~LondonInPersonsSnippets =>
              (answer = "refusal" /\ reason = NoFocus /\ synth_with = None)
        /\ LondonInPersonsSnippets => reason # NoFocus

\* the focus term is "london", Ana's message has it, and the focus gate has
\* let the question pass
C16_Witness ==
    /\ apc = "done"
    /\ focus = <<<<"l", "o", "n", "d", "o", "n">>>>
    /\ LondonInPersonsSnippets
    /\ reason = GuardWhen

(***************************************************************************)
(* More properties of Spec: a failed refresh, the snapshot between swaps,  *)
(* the life cycle of the store.                                            *)
(***************************************************************************)
\* the positions inside the with block of _fetch
SwapPcs == {"w_items", "w_texts", "w_embeddings", "w_bm25", "w_bm25_corpus",
            "w_user_names", "w_last_fetch"}
\* the positions inside _fetch
FetchPcs == {"f_fetch", "f_lock"} \cup SwapPcs

\* the store holds the artifacts _fetch derives from the messages its
StoreHolds(its) ==
    /\ items = its
    /\ texts = Derive(its).texts
    /\ embeddings = Derive(its).embs
    /\ bm25 = Derive(its).bm25
    /\ bm25_corpus = Derive(its).corpus_tok
    /\ user_names = Derive(its).user_names

\* C17: a _fetch that raises changes nothing of the store: items, texts,
\* embeddings, index, tokenized corpus, user names and _last_fetch are what
\* they were, it holds no lock, and the staleness condition is what it was;
\* and an ensure_fresh that, after a failure, finds the staleness condition
\* true fetches again.
C17_FailedRefreshKeepsStore ==
    /\ [][\A t \in Threads :
            (pc[t] = "f_fetch" /\ pc'[t] = "done") =>
                /\ UNCHANGED <<items, texts, embeddings, bm25, bm25_corpus,
                               user_names, _last_fetch, loaded>>
                /\ _lock' = _lock /\ _lock # t
                /\ NeedsRefresh(embeddings', now', _last_fetch')
                      = NeedsRefresh(embeddings, now, _last_fetch)]_vars
    /\ [][\A t \in Reqs :
            (/\ pc[t] = "ef_check" /\ pc'[t] # pc[t]
             /\ failed # {} \/ bgFail = "fetch"
             /\ NeedsRefresh(embeddings, now, _last_fetch)) =>
                pc'[t] = "f_fetch"]_vars

\* the refresh inside a request's search has failed on a loaded snapshot,
\* which is still there, complete, and stale: the next ensure_fresh fetches
C17_Witness ==
    /\ loaded
    /\ \E t \in Reqs : t \in failed /\ ret[t] = "search" /\ pc[t] = "done"
    /\ \A t \in Threads : pc[t] \notin SwapPcs
    /\ \E n \in 1..MaxItems : StoreHolds(Payload(n))
    /\ NeedsRefresh(embeddings, now, _last_fetch)

\* C18: once a swap has completed, and whenever no thread is inside the
\* with block of _fetch, the items, texts, embeddings, index, tokenized
\* corpus and user names are those derived from one payload, all of its
\* length.
C18_SnapshotFromOneFetch ==
    (loaded /\ \A t \in Threads : pc[t] \notin SwapPcs) =>
        /\ \E n \in 0..MaxItems : StoreHolds(Payload(n))
        /\ Len(texts) = Len(items)
        /\ Rows(embeddings) = Len(items)
        /\ Len(bm25_corpus) = Len(items)
        /\ Docs(bm25) = Len(items)
        /\ user_names = SortedNames(items)

\* a snapshot is loaded, nobody is swapping, and a thread waits for the
\* lock with a different payload
C18_Witness ==
    /\ loaded
    /\ \A t \in Threads : pc[t] \notin SwapPcs
    /\ \E t \in Threads : pc[t] = "f_lock" /\ data[t].items # items

\* the state of a store that has a snapshot: DATA_LOADING while some thread
\* is inside _fetch, otherwise STALE or READY by the age of the snapshot
Lifecycle ==
    IF \E t \in Threads : pc[t] \in FetchPcs THEN "DATA_LOADING"
    ELSE IF now - _last_fetch > _REFRESH_SEC THEN "STALE"
    ELSE "READY"

\* C19 as claimed: no snapshot without the models; a snapshot and the
\* models, once loaded, stay; and a store with a snapshot only goes from
\* READY to STALE, from STALE to DATA_LOADING and from DATA_LOADING to
\* READY.  Fails: a fetch that raises leaves DATA_LOADING for STALE, and
\* the warm-up thread fetches without looking at the age.
C19_OnlyListedTransitions ==
    [][/\ loaded => (_models_ready /\ embeddings # None)
       /\ loaded => loaded'
       /\ _models_ready => _models_ready'
       /\ (loaded /\ Lifecycle' # Lifecycle) =>
             <<Lifecycle, Lifecycle'>> \in
                {<<"READY", "STALE">>, <<"STALE", "DATA_LOADING">>,
                 <<"DATA_LOADING", "READY">>}]_vars

\* C19 amended: no snapshot without the models; a snapshot and the models,
\* once loaded, stay; the first swap leaves the store READY or
\* DATA_LOADING; and a store with a snapshot only goes from READY to STALE,
\* from STALE or READY to DATA_LOADING, and from DATA_LOADING to READY or
\* STALE: never from STALE to READY without a load.
C19_LifecycleTransitions ==
    [][/\ loaded => (_models_ready /\ embeddings # None)
       /\ loaded => loaded'
       /\ _models_ready => _models_ready'
       /\ (~loaded /\ loaded') => Lifecycle' \in {"READY", "DATA_LOADING"}
       /\ (loaded /\ Lifecycle' # Lifecycle) =>
             <<Lifecycle, Lifecycle'>> \in
                {<<"READY", "STALE">>, <<"STALE", "DATA_LOADING">>,
                 <<"READY", "DATA_LOADING">>, <<"DATA_LOADING", "READY">>,
                 <<"DATA_LOADING", "STALE">>}]_vars

\* a stale snapshot is being refreshed by a request
C19_Witness ==
    /\ loaded
    /\ now - _last_fetch > _REFRESH_SEC
    /\ \E t \in Reqs : pc[t] \in SwapPcs

(***************************************************************************)
(* More properties of SpecSearch: the fused scores and the pool.           *)
(***************************************************************************)
\* equal fractions
FracEq(a, b) == a[1] * b[2] = b[1] * a[2]

\* the positions of either of two recall lists
Recalled(bm, em) == Range(bm) \cup Range(em)

\* the sum, over the recall lists that have position i, of 1/(60 + rank),
\* the rank of a list's first element being 1
FusedScore(i, bm, em) ==
    FracAdd(IF InSeq(i, bm) THEN <<1, 60 + IndexOf(i, bm)>> ELSE <<0, 1>>,
            IF InSeq(i, em) THEN <<1, 60 + IndexOf(i, em)>> ELSE <<0, 1>>)

\* pool holds at most n of the recalled positions, none twice, none with a
\* lower fused score than a recalled position left out, in an order in
\* which the fused score does not increase; and all of them if n allows
IsTopPool(pool, n, bm, em) ==
    /\ Len(pool) = Min(n, Cardinality(Recalled(bm, em)))
    /\ Range(pool) \subseteq Recalled(bm, em)
    /\ \A a, b \in 1..Len(pool) : pool[a] = pool[b] => a = b
    /\ \A i \in Range(pool) : \A j \in Recalled(bm, em) \ Range(pool) :
          ~FracGT(FusedScore(j, bm, em), FusedScore(i, bm, em))
    /\ \A a \in 1..(Len(pool) - 1) :
          ~FracGT(FusedScore(pool[a + 1], bm, em),
                  FusedScore(pool[a], bm, em))

\* _rrf and heapq.nlargest do for the recall lists bm and em and the cut n
\* what the claim says
FusesAndCuts(bm, em, n) ==
    /\ DOMAIN Rrf(bm, em, RrfK) = Recalled(bm, em)
    /\ \A i \in Recalled(bm, em) :
          FracEq(Rrf(bm, em, RrfK)[i], FusedScore(i, bm, em))
    /\ IsTopPool(NLargest(n, RankKeys(bm, em), Rrf(bm, em, RrfK)), n, bm, em)

\* C20: every position of either recall list has the fused score that is
\* the sum of 1/(60 + rank) over the lists it is in, ranks from 1; the pool
\* handed to the reranker has at most 60 positions, the highest-scoring
\* ones, in an order of non-increasing fused score.  The corpus of this
\* model is smaller than the cuts 100 and 60 of search, which therefore
\* leave both lists and the pool whole; so _rrf and heapq.nlargest are also
\* held to the claim for the same rankings cut shorter and a pool of one
\* or two, where a position is in one list only and the pool leaves
\* positions out.
C20_FusedPool ==
    /\ spc = "fuse" =>
          /\ \A nb, ne \in 0..MaxCorpus : \A n \in 1..2 :
                FusesAndCuts(Prefix(bm_idx, nb), Prefix(em_idx, ne), n)
          /\ FusesAndCuts(bm_idx, em_idx, PoolM)
    /\ spc = "rerank" =>
          (Len(cand_idx) <= 60 /\ IsTopPool(cand_idx, 60, bm_idx, em_idx))

\* a pool whose first two positions have different fused scores, the second
\* of them at different ranks in the two lists
C20_Witness ==
    /\ spc = "rerank"
    /\ Len(cand_idx) >= 3
    /\ FracGT(FusedScore(cand_idx[1], bm_idx, em_idx),
              FusedScore(cand_idx[2], bm_idx, em_idx))
    /\ IndexOf(cand_idx[2], bm_idx) # IndexOf(cand_idx[2], em_idx)

(***************************************************************************)
(* More properties of Spec: the snapshot of an empty corpus.               *)
(***************************************************************************)
\* the store holds the snapshot of an empty corpus, and nobody is swapping
EmptySnapshot ==
    /\ loaded
    /\ items = << >>
    /\ \A t \in Threads : pc[t] \notin SwapPcs

\* C21: the snapshot of an empty corpus has a matrix of no rows, not None;
\* an ensure_fresh that checks on it fetches exactly if the snapshot is
\* older than _REFRESH_SEC; a search that found no document in its index
\* and reads its matrix has no candidate, and returns [] (ask answers 200);
\* and no search reaches the reranker without a candidate.
C21_EmptyCorpusIsLoaded ==
    /\ [](EmptySnapshot => (embeddings # None /\ Rows(embeddings) = 0))
    /\ [](\A t \in Reqs : pc[t] \in {"s_texts", "s_items"} => rd[t].cand > 0)
    /\ [][\A t \in Reqs :
            (EmptySnapshot /\ pc[t] = "ef_check" /\ pc'[t] # pc[t]) =>
                ((pc'[t] = "f_fetch") <=>
                    (now - _last_fetch > _REFRESH_SEC))]_vars
    /\ [][\A t \in Reqs :
            (/\ EmptySnapshot
             /\ pc[t] = "s_emb" /\ rd[t].bm25 = 0
             /\ pc'[t] # pc[t]) =>
                /\ rd'[t].embeddings = 0 /\ rd'[t].cand = 0
                /\ pc'[t] = "done" /\ resp'[t] = "200"]_vars

\* the snapshot of an empty corpus is exactly _REFRESH_SEC old; a request
\* has searched it and returned nothing, and another one's ensure_fresh is
\* about to check it
C21_Witness ==
    /\ EmptySnapshot
    /\ now - _last_fetch = _REFRESH_SEC
    /\ \E t \in Reqs :
          /\ pc[t] = "done" /\ resp[t] = "200"
          /\ rd[t].bm25 = 0 /\ rd[t].embeddings = 0 /\ rd[t].cand = 0
    /\ \E u \in Reqs : pc[u] = "ef_check"

(***************************************************************************)
(* The store under fair scheduling: a thread that can take a step does not *)
(* wait forever.  A thread waiting for self._lock can take its step when   *)
(* the lock is free; nothing is assumed about who gets a contended lock.   *)
(***************************************************************************)
\* the steps of thread t once it has been started
Run(t) ==
    \/ EnsureModelsCheck1(t) \/ EnsureModelsLock(t)
    \/ EnsureModelsCheck2(t) \/ EnsureModelsLoad(t)
    \/ EnsureFreshCheck(t) \/ Fetch(t) \/ FetchLock(t)
    \/ WriteItems(t) \/ WriteTexts(t) \/ WriteEmbeddings(t)
    \/ WriteBM25(t) \/ WriteBM25Corpus(t)
    \/ WriteUserNames(t) \/ WriteLastFetch(t)
    \/ AskSearch(t) \/ SearchBM25(t) \/ SearchEmbedding(t)
    \/ SearchTexts(t) \/ SearchItems(t)

SpecFair == Init /\ [][Next]_vars /\ \A t \in Threads : WF_vars(Run(t))

\* the positions at which a thread holds self._lock: inside the with block
\* of _ensure_models and inside that of _fetch
LockPcs == {"em_check2", "em_load"} \cup SwapPcs

\* the positions inside a call of ensure_fresh (for the warm-up thread,
\* inside _ensure_models and _fetch)
CallPcs == {"em_check1", "em_lock", "em_check2", "em_load", "ef_check"}
               \cup FetchPcs

\* C22: every call of ensure_fresh returns or raises, and the warm-up
\* thread, once started, finishes: a thread makes no more than two calls,
\* so from some point on no thread is inside one; a thread holds the lock
\* exactly while it is inside one of the two with blocks, so a thread that
\* has left them, by return or by exception, has released it; and a model
\* load that raises leaves the lock free.
C22_NoDeadlock ==
    /\ <>[](\A t \in Threads : pc[t] \notin CallPcs)
    /\ [](\A t \in Threads : (_lock = t) <=> (pc[t] \in LockPcs))
    /\ [](_lock \in Threads \cup {NoThread})
    /\ [][\A t \in Threads :
            (pc[t] = "em_load" /\ pc'[t] = "done") => _lock' = NoThread]_vars

\* a model load has raised while two other threads were waiting for the
\* lock, one of which now holds it
C22_Witness ==
    /\ \E t \in Threads : pc[t] = "done" /\ (t \in failed \/ bgFail = "models")
    /\ loads = 0
    /\ \E u \in Threads : pc[u] = "em_load" /\ _lock = u
    /\ \E w \in Threads : pc[w] = "em_lock"

=============================================================================
